---- MODULE Spec2Model ----
(***************************************************************************)
(* MPESA LNMO payment gateway: the transactions table, the three HTTP      *)
(* routes (transact, query, callback) and LNMORepository behind them.      *)
(* One action is one HTTP request handled from validation to response.     *)
(***************************************************************************)
EXTENDS Integers, Sequences, FiniteSets, TLC

VARIABLES rows, pushCount, last, inflight, now, payload

vars == <<rows, pushCount, last, inflight, now, payload>>

(***************************************************************************)
(* Python values that are not strings of the domain.                       *)
(***************************************************************************)
\* Python None / SQL NULL
None == "<None>"
\* a key that is absent from a JSON object
Missing == "<missing>"

(***************************************************************************)
(* Transaction model constants (single.py, class Transaction).             *)
(***************************************************************************)
PENDING == 0
PROCESSING == 1
PROCESSED == 2
REJECTED == 3
ACCEPTED == 4

PURCHASE_ORDER == 0
CREDIT == 1
LNMO == 1
MPESA_KE == 0

\* Numeric(10, 2): at most 8 digits before the decimal point
NumericLimit == 100000000

MPESA_LNMO_SHORT_CODE == "174379"

ReceiptMarker == "MpesaReceiptNumber"

(***************************************************************************)
(* Bounds of the model.                                                    *)
(***************************************************************************)
\* push requests issued per account reference before Initiate is cut off
MaxPush == 2

(***************************************************************************)
(* Inputs.                                                                 *)
(***************************************************************************)
CheckoutIds == {"ws_CO_1", "ws_CO_2"}
Refs == {"ORDER-1", "ORDER-2"}
GoodPhone == "254712345678"

\* bodies posted to /transact
TransactRequests ==
    {[Amount |-> 100, PhoneNumber |-> GoodPhone, AccountReference |-> ref] : ref \in Refs}
    \cup {[Amount |-> 0, PhoneNumber |-> GoodPhone, AccountReference |-> "ORDER-1"],
          [Amount |-> -5, PhoneNumber |-> GoodPhone, AccountReference |-> "ORDER-1"],
          [Amount |-> 100, PhoneNumber |-> "0712", AccountReference |-> "ORDER-1"]}

\* bodies posted to /query
QueryRequests == {[transaction_id |-> c] : c \in {"ws_CO_1", Missing}}

\* answers of the provider's OAuth endpoint
TokenResponses ==
    {[status_code |-> 200, access_token |-> "tok"],
     [status_code |-> 200, access_token |-> Missing],
     [status_code |-> 401, access_token |-> Missing]}

\* answers of the provider's push endpoint; json = FALSE is a body that
\* response.json() cannot parse
NotJson == [json |-> FALSE, CheckoutRequestID |-> Missing, ResponseCode |-> Missing]
PushResponses ==
    {[json |-> TRUE, CheckoutRequestID |-> c, ResponseCode |-> "0"] : c \in CheckoutIds}
    \cup {[json |-> TRUE, CheckoutRequestID |-> Missing, ResponseCode |-> Missing], NotJson}

\* answers of the provider's query endpoint
QueryResponses ==
    {[json |-> TRUE, CheckoutRequestID |-> "ws_CO_1", ResponseCode |-> "0"], NotJson}

\* one entry of CallbackMetadata.Item; isdict = FALSE is an entry that is
\* not a JSON object
MarkerItem(v) == [isdict |-> TRUE, Name |-> ReceiptMarker, hasValue |-> TRUE, Value |-> v]
NoValueItem == [isdict |-> TRUE, Name |-> ReceiptMarker, hasValue |-> FALSE, Value |-> Missing]
AmountItem == [isdict |-> TRUE, Name |-> "Amount", hasValue |-> TRUE, Value |-> "100"]
BadItem == [isdict |-> FALSE, Name |-> Missing, hasValue |-> FALSE, Value |-> Missing]

\* CallbackMetadata: absent, a JSON value that is not an object, or an
\* object with an Item list
NoMetadata == [kind |-> "absent", Item |-> <<>>]
BadMetadata == [kind |-> "notdict", Item |-> <<>>]
Metadata(items) == [kind |-> "dict", Item |-> items]

R1 == "NLJ7RT61SV"
R2 == "NLJ7RT61SW"
Receipts == {R1, R2}

SuccessMetadata ==
    {NoMetadata,
     Metadata(<<>>),
     Metadata(<<MarkerItem(R1)>>),
     Metadata(<<MarkerItem(R2), MarkerItem(R1)>>),
     Metadata(<<NoValueItem, AmountItem>>),
     Metadata(<<BadItem>>)}

FailureMetadata == {NoMetadata, Metadata(<<MarkerItem(R1)>>)}

StkCallback(cid, hasrc, rc, meta) ==
    [Body |-> TRUE, CheckoutRequestID |-> cid, hasResultCode |-> hasrc,
     ResultCode |-> rc, CallbackMetadata |-> meta]

\* bodies posted to /callback
CallbackPayloads ==
    {StkCallback("ws_CO_1", TRUE, 0, m) : m \in SuccessMetadata}
    \cup {StkCallback("ws_CO_1", TRUE, 1032, m) : m \in FailureMetadata}
    \cup {StkCallback("ws_CO_2", TRUE, 0, Metadata(<<MarkerItem(R1)>>)),
          StkCallback("ws_CO_2", TRUE, 1032, NoMetadata),
          StkCallback(None, TRUE, 0, Metadata(<<MarkerItem(R1)>>)),
          StkCallback(None, TRUE, 1032, NoMetadata),
          StkCallback("ws_CO_1", FALSE, 0, NoMetadata),
          StkCallback(Missing, TRUE, 0, NoMetadata),
          [Body |-> FALSE, CheckoutRequestID |-> Missing, hasResultCode |-> FALSE,
           ResultCode |-> 0, CallbackMetadata |-> NoMetadata]}

(***************************************************************************)
(* Rows of the transactions table and HTTP responses.                      *)
(***************************************************************************)
EmptyDict == [empty |-> TRUE]

\* APIResponse(status, message, data) with HTTP 200
APIResponse(status, message, data) ==
    [status_code |-> 200, status |-> status, message |-> message, data |-> data]

\* HTTPException(400, detail = {"status": "danger", "message": str(e), "data": {}})
HTTPException(e) ==
    [status_code |-> 400, status |-> "danger", message |-> e, data |-> EmptyDict]

\* the framework's answer to a body that fails the request schema; the
\* route function is not entered
RequestValidationError ==
    [status_code |-> 422, status |-> "unprocessable", message |-> "validation", data |-> EmptyDict]

\* result of a repository method: the table afterwards, the outbound HTTP
\* calls made, the exception raised ("none" if it returned) and the value
Returned(newRows, calls, value) ==
    [rows |-> newRows, calls |-> calls, raised |-> "none", ret |-> value]
Raised(newRows, calls, e) ==
    [rows |-> newRows, calls |-> calls, raised |-> e, ret |-> EmptyDict]

\* dict.get(key): None when the key is absent
DictGet(value) == IF value = Missing THEN None ELSE value

(***************************************************************************)
(* Request schemas.                                                        *)
(***************************************************************************)
\* the schema with Amount ge=0 in place of gt=0
TransactionRequest_ge(req) ==
    /\ req.Amount >= 0
    /\ Len(req.PhoneNumber) >= 10
    /\ Len(req.PhoneNumber) <= 15
    /\ Len(req.AccountReference) >= 1
    /\ Len(req.AccountReference) <= 100

\* Amount gt=0, PhoneNumber 10..15 characters, AccountReference 1..100
TransactionRequest(req) ==
    /\ req.Amount > 0
    /\ Len(req.PhoneNumber) >= 10
    /\ Len(req.PhoneNumber) <= 15
    /\ Len(req.AccountReference) >= 1
    /\ Len(req.AccountReference) <= 100

\* transaction_id: str, required
QueryRequest(req) == req.transaction_id # Missing

(***************************************************************************)
(* The table's constraints and the session.                                *)
(***************************************************************************)
\* the constraints with transaction_code declared without unique=True
UniqueViolation_nocode(others, t) ==
    \E r \in others :
        \/ r._pid = t._pid
        \/ (t.transaction_id # None /\ r.transaction_id = t.transaction_id)

\* the constraints with _pid declared without unique=True
UniqueViolation_nopid(others, t) ==
    \E r \in others :
        \/ (t.transaction_id # None /\ r.transaction_id = t.transaction_id)
        \/ (t.transaction_code # None /\ r.transaction_code = t.transaction_code)

\* unique _pid, unique transaction_id and unique transaction_code; NULLs
\* never collide
UniqueViolation(others, t) ==
    \E r \in others :
        \/ r._pid = t._pid
        \/ (t.transaction_id # None /\ r.transaction_id = t.transaction_id)
        \/ (t.transaction_code # None /\ r.transaction_code = t.transaction_code)

\* transaction_amount Numeric(10, 2)
NumericOverflow(t) == t.transaction_amount >= NumericLimit \/ -t.transaction_amount >= NumericLimit

\* db.merge in place of db.add: a row with the same _pid is replaced
session_add_commit_merge(table, t) ==
    LET others == {r \in table : r._pid # t._pid}
    IN  IF UniqueViolation(others, t) THEN [raised |-> "IntegrityError", rows |-> table]
        ELSE [raised |-> "none", rows |-> others \cup {t}]

\* db.add(transaction); await db.commit()
session_add_commit(table, t) ==
    IF UniqueViolation(table, t) THEN [raised |-> "IntegrityError", rows |-> table]
    ELSE IF NumericOverflow(t) THEN [raised |-> "DataError", rows |-> table]
    ELSE [raised |-> "none", rows |-> table \cup {t}]

\* the UPDATE emitted by the flush: only the attributes whose value differs
\* from the loaded one are written, onto the row as it is stored now
flush_update(current, loaded, new) ==
    [current EXCEPT
        !._feedback = IF new._feedback # loaded._feedback THEN new._feedback ELSE @,
        !._status = IF new._status # loaded._status THEN new._status ELSE @,
        !.transaction_code = IF new.transaction_code # loaded.transaction_code
                             THEN new.transaction_code ELSE @]

\* a uniqueness test on the receipt code that does not leave out the row
\* being updated
session_commit_selfcheck(table, old, new) ==
    LET current == CHOOSE r \in table : r._pid = old._pid
        written == flush_update(current, old, new)
    IN  IF \E r \in table : written.transaction_code # None
                             /\ r.transaction_code = written.transaction_code
        THEN [raised |-> "IntegrityError", rows |-> table]
        ELSE [raised |-> "none", rows |-> (table \ {current}) \cup {written}]

\* an UPDATE without its WHERE clause: the new status is written to every row
session_commit_nowhere(table, old, new) ==
    IF UniqueViolation(table \ {old}, new) THEN [raised |-> "IntegrityError", rows |-> table]
    ELSE [raised |-> "none",
          rows |-> {[r EXCEPT !._status = new._status] : r \in table \ {old}} \cup {new}]

\* await db.commit() after the loaded row old was changed in memory to new
session_commit(table, old, new) ==
    LET current == CHOOSE r \in table : r._pid = old._pid
        written == flush_update(current, old, new)
    IN  IF UniqueViolation(table \ {current}, written)
        THEN [raised |-> "IntegrityError", rows |-> table]
        ELSE [raised |-> "none", rows |-> (table \ {current}) \cup {written}]

\* a session that flushes what was changed in memory when it is closed
get_database_flush(table, old, dirty) == (table \ {old}) \cup {dirty}

\* get_database: the request's session is closed without a commit when the
\* handler raised; what was changed in memory (old to dirty) is discarded
get_database(table, old, dirty) == table

(***************************************************************************)
(* LNMORepository.                                                         *)
(***************************************************************************)
\* a token method that answers an empty string where it has no token
generate_access_token_empty(tokenResp) ==
    IF tokenResp.status_code = 200
    THEN IF tokenResp.access_token = Missing THEN "" ELSE tokenResp.access_token
    ELSE ""

generate_access_token(tokenResp) ==
    IF tokenResp.status_code = 200
    THEN IF tokenResp.access_token = Missing THEN None ELSE tokenResp.access_token
    ELSE None

\* the constructor call without _status: the column default applies
NewTransaction_default(data, response_data) ==
    [_pid |-> data.AccountReference,
     party_a |-> data.PhoneNumber,
     party_b |-> MPESA_LNMO_SHORT_CODE,
     account_reference |-> data.AccountReference,
     transaction_category |-> PURCHASE_ORDER,
     transaction_type |-> CREDIT,
     transaction_channel |-> LNMO,
     transaction_aggregator |-> MPESA_KE,
     transaction_id |-> DictGet(response_data.CheckoutRequestID),
     transaction_amount |-> data.Amount,
     transaction_code |-> None,
     _feedback |-> response_data,
     _status |-> PENDING]

\* Transaction(...) as built by LNMORepository.transact
NewTransaction(data, response_data) ==
    [_pid |-> data.AccountReference,
     party_a |-> data.PhoneNumber,
     party_b |-> MPESA_LNMO_SHORT_CODE,
     account_reference |-> data.AccountReference,
     transaction_category |-> PURCHASE_ORDER,
     transaction_type |-> CREDIT,
     transaction_channel |-> LNMO,
     transaction_aggregator |-> MPESA_KE,
     transaction_id |-> DictGet(response_data.CheckoutRequestID),
     transaction_amount |-> data.Amount,
     transaction_code |-> None,
     _feedback |-> response_data,
     _status |-> PROCESSING]

LNMORepository_transact(data, tokenResp, pushResp, table) ==
    IF generate_access_token(tokenResp) = None
    THEN Raised(table, <<"token">>, "TypeError")
    ELSE IF ~pushResp.json
    THEN Raised(table, <<"token", "push">>, "JSONDecodeError")
    ELSE LET saved == session_add_commit(table, NewTransaction(data, pushResp))
         IN  IF saved.raised # "none"
             THEN Raised(saved.rows, <<"token", "push">>, saved.raised)
             ELSE Returned(saved.rows, <<"token", "push">>, pushResp)

\* a query that reconciles the stored row with the provider's answer
LNMORepository_query_reconcile(transaction_id, tokenResp, queryResp, table) ==
    IF generate_access_token(tokenResp) = None
    THEN Raised(table, <<"token">>, "TypeError")
    ELSE IF ~queryResp.json
    THEN Raised(table, <<"token", "query">>, "JSONDecodeError")
    ELSE Returned({IF r.transaction_id = transaction_id THEN [r EXCEPT !._status = ACCEPTED] ELSE r :
                     r \in table},
                  <<"token", "query">>, queryResp)

LNMORepository_query(transaction_id, tokenResp, queryResp, table) ==
    IF generate_access_token(tokenResp) = None
    THEN Raised(table, <<"token">>, "TypeError")
    ELSE IF ~queryResp.json
    THEN Raised(table, <<"token", "query">>, "JSONDecodeError")
    ELSE Returned(table, <<"token", "query">>, queryResp)

\* select(Transaction).where(Transaction.transaction_id == checkout_request_id);
\* comparing the column with None is rendered as IS NULL
select_transaction(table, checkout_request_id) ==
    IF checkout_request_id = None
    THEN {r \in table : r.transaction_id = None}
    ELSE {r \in table : r.transaction_id # None /\ r.transaction_id = checkout_request_id}

\* a scan that does not look at the item's Name: the first item with a Value
\* is taken
RECURSIVE ScanItems_anyname(_)
ScanItems_anyname(items) ==
    IF items = <<>> THEN [raised |-> "none", found |-> FALSE, Value |-> None]
    ELSE LET item == Head(items)
         IN  IF ~item.isdict THEN [raised |-> "AttributeError", found |-> FALSE, Value |-> None]
             ELSE IF item.hasValue
             THEN [raised |-> "none", found |-> TRUE, Value |-> item.Value]
             ELSE ScanItems_anyname(Tail(items))

\* the scan without its break: the last receipt item wins
RECURSIVE ScanItems_nobreak(_)
ScanItems_nobreak(items) ==
    IF items = <<>> THEN [raised |-> "none", found |-> FALSE, Value |-> None]
    ELSE LET item == Head(items)
             rest == ScanItems_nobreak(Tail(items))
         IN  IF ~item.isdict THEN [raised |-> "AttributeError", found |-> FALSE, Value |-> None]
             ELSE IF rest.raised # "none" \/ rest.found THEN rest
             ELSE IF item.Name = ReceiptMarker /\ item.hasValue
             THEN [raised |-> "none", found |-> TRUE, Value |-> item.Value]
             ELSE rest

\* the scan of CallbackMetadata.Item for the receipt number
RECURSIVE ScanItems(_)
ScanItems(items) ==
    IF items = <<>> THEN [raised |-> "none", found |-> FALSE, Value |-> None]
    ELSE LET item == Head(items)
         IN  IF ~item.isdict THEN [raised |-> "AttributeError", found |-> FALSE, Value |-> None]
             ELSE IF item.Name = ReceiptMarker /\ item.hasValue
             THEN [raised |-> "none", found |-> TRUE, Value |-> item.Value]
             ELSE ScanItems(Tail(items))

\* the else branch of the result code test
FailedStatus == REJECTED

\* a callback body that keeps the first feedback: the payload is stored only
\* on a row that is still PROCESSING
ApplyToTransaction_once(transaction, data) ==
    LET t1 == IF transaction._status = PROCESSING
              THEN [transaction EXCEPT !._feedback = data]
              ELSE transaction
    IN  IF ~data.hasResultCode THEN [raised |-> "KeyError", obj |-> t1]
        ELSE IF data.ResultCode = 0
        THEN LET t2 == [t1 EXCEPT !._status = ACCEPTED]
                 callback_metadata == data.CallbackMetadata
             IN  IF callback_metadata.kind = "absent" THEN [raised |-> "none", obj |-> t2]
                 ELSE IF callback_metadata.kind = "notdict"
                 THEN [raised |-> "AttributeError", obj |-> t2]
                 ELSE LET scan == ScanItems(callback_metadata.Item)
                      IN  IF scan.raised # "none" THEN [raised |-> scan.raised, obj |-> t2]
                          ELSE IF scan.found
                          THEN [raised |-> "none", obj |-> [t2 EXCEPT !.transaction_code = scan.Value]]
                          ELSE [raised |-> "none", obj |-> t2]
        ELSE [raised |-> "none", obj |-> [t1 EXCEPT !._status = FailedStatus]]

\* the body of "if transaction:" up to the commit, on the loaded object
ApplyToTransaction(transaction, data) ==
    LET t1 == [transaction EXCEPT !._feedback = data]
    IN  IF ~data.hasResultCode THEN [raised |-> "KeyError", obj |-> t1]
        ELSE IF data.ResultCode = 0
        THEN LET t2 == [t1 EXCEPT !._status = ACCEPTED]
                 callback_metadata == data.CallbackMetadata
             IN  IF callback_metadata.kind = "absent" THEN [raised |-> "none", obj |-> t2]
                 ELSE IF callback_metadata.kind = "notdict"
                 THEN [raised |-> "AttributeError", obj |-> t2]
                 ELSE LET scan == ScanItems(callback_metadata.Item)
                      IN  IF scan.raised # "none" THEN [raised |-> scan.raised, obj |-> t2]
                          ELSE IF scan.found
                          THEN [raised |-> "none", obj |-> [t2 EXCEPT !.transaction_code = scan.Value]]
                          ELSE [raised |-> "none", obj |-> t2]
        ELSE [raised |-> "none", obj |-> [t1 EXCEPT !._status = FailedStatus]]

\* result.scalar_one() in place of scalar_one_or_none()
NoRowFound_scalar_one(table, data) == Raised(table, <<>>, "NoResultFound")

\* result.scalar_one_or_none() found no row
NoRowFound(table, data) == Returned(table, <<>>, data)

LNMORepository_callback(data, table) ==
    IF ~data.Body \/ data.CheckoutRequestID = Missing
    THEN Raised(table, <<>>, "KeyError")
    ELSE LET found == select_transaction(table, data.CheckoutRequestID)
         IN  IF Cardinality(found) > 1 THEN Raised(table, <<>>, "MultipleResultsFound")
             ELSE IF found = {} THEN NoRowFound(table, data)
             ELSE LET transaction == CHOOSE r \in found : TRUE
                      applied == ApplyToTransaction(transaction, data)
                  IN  IF applied.raised # "none"
                      THEN Raised(get_database(table, transaction, applied.obj), <<>>, applied.raised)
                      ELSE LET saved == session_commit(table, transaction, applied.obj)
                           IN  IF saved.raised # "none"
                               THEN Raised(saved.rows, <<>>, saved.raised)
                               ELSE Returned(saved.rows, <<>>, data)

(***************************************************************************)
(* Routes: what one request does to the table and what it answers.         *)
(***************************************************************************)
Handled(op, input, newRows, calls, response) ==
    [op |-> op, input |-> input, rows |-> newRows, calls |-> calls, response |-> response]

transact(req, tokenResp, pushResp, table) ==
    IF ~TransactionRequest(req)
    THEN Handled("transact", req, table, <<>>, RequestValidationError)
    ELSE LET res == LNMORepository_transact(req, tokenResp, pushResp, table)
         IN  Handled("transact", req, res.rows, res.calls,
                     IF res.raised # "none" THEN HTTPException(res.raised)
                     ELSE APIResponse("info", "Transaction processing", res.ret))

query(req, tokenResp, queryResp, table) ==
    IF ~QueryRequest(req)
    THEN Handled("query", req, table, <<>>, RequestValidationError)
    ELSE LET res == LNMORepository_query(req.transaction_id, tokenResp, queryResp, table)
         IN  Handled("query", req, res.rows, res.calls,
                     IF res.raised # "none" THEN HTTPException(res.raised)
                     ELSE APIResponse("info", "Query processing", res.ret))

callback(callback_data, table) ==
    LET res == LNMORepository_callback(callback_data, table)
    IN  Handled("callback", callback_data, res.rows, res.calls,
                IF res.raised # "none" THEN HTTPException(res.raised)
                ELSE APIResponse("info", "Callback processing", res.ret))

(***************************************************************************)
(* State machine.                                                          *)
(***************************************************************************)
Pushed(calls) == \E i \in 1..Len(calls) : calls[i] = "push"

Record(h) == [op |-> h.op, input |-> h.input, calls |-> h.calls, response |-> h.response]

\* callback deliveries handled at the same time, each with its own session
Deliveries == {"d1", "d2"}

\* a delivery slot with no request in it
Idle == [pc |-> "idle", data |-> EmptyDict, loaded |-> EmptyDict]

\* no request to the provider has been built yet
NoPayload == [pc |-> "idle", op |-> "none", input |-> EmptyDict,
              Password |-> <<>>, Timestamp |-> <<>>]

Init ==
    /\ rows = {}
    /\ pushCount = [ref \in Refs |-> 0]
    /\ last = [op |-> "none", input |-> EmptyDict, calls |-> <<>>, response |-> EmptyDict]
    /\ inflight = [p \in Deliveries |-> Idle]
    /\ now = 0
    /\ payload = NoPayload

Initiate(req, tokenResp, pushResp) ==
    LET h == transact(req, tokenResp, pushResp, rows)
    IN  /\ req.AccountReference \in Refs => pushCount[req.AccountReference] < MaxPush
        /\ rows' = h.rows
        /\ pushCount' = IF Pushed(h.calls)
                        THEN [pushCount EXCEPT ![req.AccountReference] = @ + 1]
                        ELSE pushCount
        /\ last' = Record(h)
        /\ UNCHANGED <<inflight, now, payload>>

Query(req, tokenResp, queryResp) ==
    LET h == query(req, tokenResp, queryResp, rows)
    IN  /\ rows' = h.rows
        /\ last' = Record(h)
        /\ UNCHANGED <<pushCount, inflight, now, payload>>

ApplyCallback(callback_data) ==
    LET h == callback(callback_data, rows)
    IN  /\ rows' = h.rows
        /\ last' = Record(h)
        /\ UNCHANGED <<pushCount, inflight, now, payload>>

Next ==
    \/ \E req \in TransactRequests, tokenResp \in TokenResponses, pushResp \in PushResponses :
          Initiate(req, tokenResp, pushResp)
    \/ \E req \in QueryRequests, tokenResp \in TokenResponses, queryResp \in QueryResponses :
          Query(req, tokenResp, queryResp)
    \/ \E callback_data \in CallbackPayloads : ApplyCallback(callback_data)

Spec == Init /\ [][Next]_vars

(***************************************************************************)
(* Concurrent callback deliveries.  LNMORepository.callback suspends at    *)
(* "await db.execute" and at "await db.commit"; another request can run in *)
(* between.  The select takes no row lock.                                 *)
(***************************************************************************)
\* the callback bodies delivered concurrently
ConcurrentPayloads ==
    {StkCallback("ws_CO_1", TRUE, 0, NoMetadata),
     StkCallback("ws_CO_1", TRUE, 0, Metadata(<<MarkerItem(R1)>>)),
     StkCallback("ws_CO_1", TRUE, 1032, NoMetadata)}

\* the payment the deliveries are about
ConcurrentRequests == {[Amount |-> 100, PhoneNumber |-> GoodPhone, AccountReference |-> "ORDER-1"]}
ConcurrentToken == [status_code |-> 200, access_token |-> "tok"]
ConcurrentPush == [json |-> TRUE, CheckoutRequestID |-> "ws_CO_1", ResponseCode |-> "0"]

\* the handler up to the result of the select: it ends here when the body
\* is malformed or no single row is found, else the row is in the session
CallbackLoad(p, callback_data) ==
    /\ inflight[p].pc = "idle"
    /\ LET found == IF ~callback_data.Body \/ callback_data.CheckoutRequestID = Missing
                     THEN {}
                     ELSE select_transaction(rows, callback_data.CheckoutRequestID)
       IN  IF Cardinality(found) = 1
           THEN /\ inflight' = [inflight EXCEPT ![p] =
                                   [pc |-> "loaded", data |-> callback_data,
                                    loaded |-> CHOOSE r \in found : TRUE]]
                /\ UNCHANGED <<rows, last>>
           ELSE /\ last' = Record(callback(callback_data, rows))
                /\ UNCHANGED <<rows, inflight>>
    /\ UNCHANGED <<pushCount, now, payload>>

\* the handler from the assignments on the loaded object to the commit
CallbackCommit(p) ==
    /\ inflight[p].pc = "loaded"
    /\ LET callback_data == inflight[p].data
           transaction == inflight[p].loaded
           applied == ApplyToTransaction(transaction, callback_data)
           saved == session_commit(rows, transaction, applied.obj)
       IN  IF applied.raised # "none"
           THEN /\ rows' = get_database(rows, transaction, applied.obj)
                /\ last' = Record(Handled("callback", callback_data, rows, <<>>,
                                          HTTPException(applied.raised)))
           ELSE /\ rows' = saved.rows
                /\ last' = Record(Handled("callback", callback_data, saved.rows, <<>>,
                                          IF saved.raised # "none" THEN HTTPException(saved.raised)
                                          ELSE APIResponse("info", "Callback processing", callback_data)))
    /\ inflight' = [inflight EXCEPT ![p] = Idle]
    /\ UNCHANGED <<pushCount, now, payload>>

NextConcurrent ==
    \/ \E req \in ConcurrentRequests : Initiate(req, ConcurrentToken, ConcurrentPush)
    \/ \E p \in Deliveries, callback_data \in ConcurrentPayloads : CallbackLoad(p, callback_data)
    \/ \E p \in Deliveries : CallbackCommit(p)

SpecConcurrent == Init /\ [][NextConcurrent]_vars

(***************************************************************************)
(* The request sent to the provider, built step by step while the clock    *)
(* runs.  Strings are sequences of character codes; a base64 string is the *)
(* sequence of the indices of its characters in the base64 alphabet.       *)
(***************************************************************************)
\* seconds the clock can advance
MaxClock == 2

\* the instant of now = 0: 2026-11-03 23:59:59
ClockDay == 3
ClockSecondOfDay == 86399

\* str.encode() of the short code "174379" and of a pass key "bfb2"
ShortCodeBytes == <<49, 55, 52, 51, 55, 57>>
PassKeyBytes == <<98, 102, 98, 50>>

\* a two digit field of strftime
TwoDigits(n) == <<48 + (n \div 10), 48 + (n % 10)>>

\* datetime.now().strftime("%Y%m%d%H%M%S") when the clock shows t
strftime(t) ==
    LET total == ClockSecondOfDay + t
        day == ClockDay + (total \div 86400)
        second == total % 86400
    IN  <<50, 48, 50, 54>> \o TwoDigits(11) \o TwoDigits(day)
        \o TwoDigits(second \div 3600) \o TwoDigits((second % 3600) \div 60)
        \o TwoDigits(second % 60)

\* the index of "=" in the encoded form
Pad == 64

\* base64.b64encode
RECURSIVE b64encode(_)
b64encode(bytes) ==
    IF bytes = <<>> THEN <<>>
    ELSE LET n == Len(bytes)
             b1 == bytes[1]
             b2 == IF n >= 2 THEN bytes[2] ELSE 0
             b3 == IF n >= 3 THEN bytes[3] ELSE 0
         IN  <<b1 \div 4,
               (b1 % 4) * 16 + (b2 \div 16),
               IF n >= 2 THEN (b2 % 16) * 4 + (b3 \div 64) ELSE Pad,
               IF n >= 3 THEN b3 % 64 ELSE Pad>>
             \o (IF n > 3 THEN b64encode(SubSeq(bytes, 4, n)) ELSE <<>>)

\* generate_password when the clock shows t
generate_password(t) == b64encode(ShortCodeBytes \o PassKeyBytes \o strftime(t))

\* the clock advances by a second
Tick ==
    /\ now < MaxClock
    /\ now' = now + 1
    /\ UNCHANGED <<rows, pushCount, last, inflight, payload>>

\* the handler up to the "Password" entry of the payload: the token is
\* obtained and generate_password reads the clock
BuildPassword(op, req) ==
    /\ payload.pc \in {"idle", "sent"}
    /\ op = "transact" => pushCount[req.AccountReference] < MaxPush
    /\ payload' = [pc |-> "password", op |-> op, input |-> req,
                   Password |-> generate_password(now), Timestamp |-> <<>>]
    /\ UNCHANGED <<rows, pushCount, last, inflight, now>>

\* the "Timestamp" entry of the payload: the clock is read again
BuildTimestamp ==
    /\ payload.pc = "password"
    /\ payload' = [payload EXCEPT !.pc = "built", !.Timestamp = strftime(now)]
    /\ UNCHANGED <<rows, pushCount, last, inflight, now>>

\* requests.post(endpoint, json=payload, headers=headers) and the rest of
\* the handler
PostRequest(response) ==
    /\ payload.pc = "built"
    /\ LET h == IF payload.op = "transact"
                THEN transact(payload.input, ConcurrentToken, response, rows)
                ELSE query(payload.input, ConcurrentToken, response, rows)
       IN  /\ rows' = h.rows
           /\ last' = Record(h)
           /\ pushCount' = IF payload.op = "transact"
                           THEN [pushCount EXCEPT ![payload.input.AccountReference] = @ + 1]
                           ELSE pushCount
    /\ payload' = [payload EXCEPT !.pc = "sent"]
    /\ UNCHANGED <<inflight, now>>

NextClock ==
    \/ Tick
    \/ \E req \in ConcurrentRequests : BuildPassword("transact", req)
    \/ \E req \in {q \in QueryRequests : QueryRequest(q)} : BuildPassword("query", req)
    \/ BuildTimestamp
    \/ \E response \in QueryResponses : PostRequest(response)

SpecClock == Init /\ [][NextClock]_vars

TypeOK ==
    /\ \A r \in rows : r._status \in {PENDING, PROCESSING, PROCESSED, REJECTED, ACCEPTED}
    /\ \A ref \in Refs : pushCount[ref] \in 0..MaxPush

(***************************************************************************)
(* Vocabulary of the properties.                                           *)
(***************************************************************************)
Terminal == {ACCEPTED, REJECTED}

IsCallbackPayload(f) == "Body" \in DOMAIN f

\* the callback body names a checkout id
HasCheckoutId(d) == d.Body /\ d.CheckoutRequestID # Missing

\* exactly one stored row is found by the checkout id of callback body d
FoundOne(table, d) ==
    HasCheckoutId(d) /\ Cardinality(select_transaction(table, d.CheckoutRequestID)) = 1

\* positions of the metadata items named the receipt marker that carry a Value
ReceiptPositions(d) ==
    IF d.CallbackMetadata.kind # "dict" THEN {}
    ELSE {i \in DOMAIN d.CallbackMetadata.Item :
            /\ d.CallbackMetadata.Item[i].isdict
            /\ d.CallbackMetadata.Item[i].Name = ReceiptMarker
            /\ d.CallbackMetadata.Item[i].hasValue}

\* no entry of the item list is malformed
WellFormedItems(d) ==
    \A i \in DOMAIN d.CallbackMetadata.Item : d.CallbackMetadata.Item[i].isdict

\* the Value of the first receipt item
ReceiptValue(d) ==
    LET first == CHOOSE i \in ReceiptPositions(d) : \A j \in ReceiptPositions(d) : i <= j
    IN  d.CallbackMetadata.Item[first].Value

\* a result code 0 callback carrying a receipt item
SuccessWithReceipt(d) ==
    /\ HasCheckoutId(d)
    /\ d.hasResultCode
    /\ d.ResultCode = 0
    /\ WellFormedItems(d)
    /\ ReceiptPositions(d) # {}

\* a callback with a result code other than 0
Failure(d) == HasCheckoutId(d) /\ d.hasResultCode /\ d.ResultCode # 0

\* the step just taken handled a request on the given route
Handles(op) == last'.op = op /\ vars' # vars

(***************************************************************************)
(* C1                                                                      *)
(***************************************************************************)
\* C1: a row whose status is ACCEPTED or REJECTED never changes status
\* again, whatever Initiate, Query or ApplyCallback follows.
C1_TerminalStatusIsFinal ==
    [][\A r \in rows : r._status \in Terminal =>
          \E r2 \in rows' : r2._pid = r._pid /\ r2._status = r._status]_vars

(***************************************************************************)
(* C2                                                                      *)
(***************************************************************************)
\* C2: once a row is ACCEPTED or REJECTED, no operation sets its status to
\* PENDING or PROCESSING.
C2_NoRegressionToPending ==
    [][\A r \in rows : r._status \in Terminal =>
          \A r2 \in rows' : r2._pid = r._pid => r2._status \notin {PENDING, PROCESSING}]_vars

\* a row that was ACCEPTED with a receipt has taken a further callback, and
\* an Initiate for its process id has since been handled
C2_Witness ==
    /\ last.op = "transact"
    /\ last.response.status_code = 400
    /\ \E r \in rows :
          /\ r._pid = last.input.AccountReference
          /\ r._status = REJECTED
          /\ r.transaction_code # None

(***************************************************************************)
(* C3                                                                      *)
(***************************************************************************)
\* C3: a row with a receipt code has status ACCEPTED, and a row ACCEPTED by
\* a callback that carried a receipt value has that receipt code.
C3_ReceiptIffAccepted ==
    \A r \in rows :
        /\ r.transaction_code # None => r._status = ACCEPTED
        /\ (/\ r._status = ACCEPTED
            /\ IsCallbackPayload(r._feedback)
            /\ SuccessWithReceipt(r._feedback))
           => r.transaction_code = ReceiptValue(r._feedback)

(***************************************************************************)
(* C4                                                                      *)
(***************************************************************************)
\* C4: for every process id exactly one push request has been issued to the
\* provider: never a second one for the same account reference, and the
\* row with that process id comes from that one push.
C4_OneSessionPerRequest ==
    \A ref \in Refs :
        /\ pushCount[ref] <= 1
        /\ (\E r \in rows : r._pid = ref) => pushCount[ref] = 1

(***************************************************************************)
(* C5                                                                      *)
(***************************************************************************)
\* C5: an ApplyCallback that fails (missing Body, stkCallback or
\* CheckoutRequestID, missing ResultCode, malformed metadata item after the
\* status was assigned in memory) leaves every persisted row as it was.
C5_FailedCallbackKeepsRows ==
    [][(Handles("callback") /\ last'.response.status_code # 200) => rows' = rows]_vars

\* a callback matched a stored row, assigned feedback and status in
\* memory and then failed on a malformed metadata item
C5_Witness ==
    /\ last.op = "callback"
    /\ last.response.status_code = 400
    /\ last.response.message = "AttributeError"
    /\ FoundOne(rows, last.input)

C7_NonPositiveAmountRejected ==
    [][(Handles("transact") /\ last'.input.Amount <= 0) =>
          /\ last'.calls = <<>>
          /\ last'.response.status_code # 200
          /\ pushCount' = pushCount
          /\ rows' = rows]_vars

\* an Initiate with amount 0 was handled while the table held a row
C7_Witness ==
    /\ last.op = "transact"
    /\ last.input.Amount = 0
    /\ rows # {}

(***************************************************************************)
(* C8                                                                      *)
(***************************************************************************)
\* C8 as stated: a callback with result code 0 and a receipt item, applied
\* to the row found by its checkout id, sets that row ACCEPTED with the
\* item's value as receipt code, from any prior status.
C8_SuccessSetsReceipt ==
    [][(Handles("callback") /\ SuccessWithReceipt(last'.input) /\ FoundOne(rows, last'.input)) =>
          \E r2 \in rows' :
              /\ r2 \in select_transaction(rows', last'.input.CheckoutRequestID)
              /\ r2._status = ACCEPTED
              /\ r2.transaction_code = ReceiptValue(last'.input)]_vars

\* the receipt value of callback body d is the receipt code of a row other
\* than the one d finds
ReceiptHeldElsewhere(table, d) ==
    \E r \in table \ select_transaction(table, d.CheckoutRequestID) :
        r.transaction_code = ReceiptValue(d)

\* C8 amended: such a callback (items well formed, first receipt item's
\* value v) sets the found row ACCEPTED with receipt code v unless v is
\* already the receipt code of another row; then the callback fails and
\* the table is unchanged.
C8_SuccessSetsReceiptUnlessHeld ==
    [][(Handles("callback") /\ SuccessWithReceipt(last'.input) /\ FoundOne(rows, last'.input)) =>
          IF ReceiptHeldElsewhere(rows, last'.input)
          THEN rows' = rows /\ last'.response.status_code = 400
          ELSE \E r2 \in rows' :
                  /\ r2 \in select_transaction(rows', last'.input.CheckoutRequestID)
                  /\ r2._status = ACCEPTED
                  /\ r2.transaction_code = ReceiptValue(last'.input)
                  /\ last'.response.status_code = 200]_vars

\* a callback with two receipt items was applied and the row holds the
\* first one's value
C8_Witness ==
    /\ last.op = "callback"
    /\ last.response.status_code = 200
    /\ SuccessWithReceipt(last.input)
    /\ Cardinality(ReceiptPositions(last.input)) > 1
    /\ \E r \in select_transaction(rows, last.input.CheckoutRequestID) :
          r._status = ACCEPTED /\ r.transaction_code = ReceiptValue(last.input)

(***************************************************************************)
(* C9                                                                      *)
(***************************************************************************)
\* C9: a callback with a non-zero result code, applied to the row found by
\* its checkout id, sets status REJECTED and leaves the receipt code unset,
\* whatever the metadata and whatever callbacks were applied before.
C9_FailureRejectsWithoutReceipt ==
    [][(Handles("callback") /\ Failure(last'.input) /\ FoundOne(rows, last'.input)) =>
          \E r2 \in rows' :
              /\ r2 \in select_transaction(rows', last'.input.CheckoutRequestID)
              /\ r2._status = REJECTED
              /\ r2.transaction_code = None]_vars

(***************************************************************************)
(* C10                                                                     *)
(***************************************************************************)
\* C10: a callback whose checkout id matches no row leaves the table
\* unchanged and is answered with the success envelope echoing the payload.
C10_UnknownCheckoutIdEchoed ==
    [][(/\ Handles("callback")
        /\ HasCheckoutId(last'.input)
        /\ select_transaction(rows, last'.input.CheckoutRequestID) = {}) =>
          /\ rows' = rows
          /\ last'.response.status_code = 200
          /\ last'.response.status = "info"
          /\ last'.response.data = last'.input]_vars

\* a callback for a checkout id that no stored row has was answered while
\* the table held a row
C10_Witness ==
    /\ last.op = "callback"
    /\ last.response.status_code = 200
    /\ HasCheckoutId(last.input)
    /\ select_transaction(rows, last.input.CheckoutRequestID) = {}
    /\ rows # {}

(***************************************************************************)
(* C11                                                                     *)
(***************************************************************************)
\* the status a callback body's result code stands for
ImpliedStatus(d) == IF d.ResultCode = 0 THEN ACCEPTED ELSE REJECTED

\* C11: once a callback payload has been applied to the row it finds,
\* applying the same payload again does not fail and leaves the table as
\* it is: one row for that checkout id, with the same status (the one the
\* result code implies), receipt code and feedback.
C11_ReplayIsSafe ==
    (last.op = "callback" /\ last.response.status_code = 200 /\ FoundOne(rows, last.input)) =>
        LET again == callback(last.input, rows)
        IN  /\ again.response.status_code = 200
            /\ again.response.data = last.input
            /\ again.rows = rows
            /\ \A r \in select_transaction(rows, last.input.CheckoutRequestID) :
                  r._feedback = last.input /\ r._status = ImpliedStatus(last.input)

\* a payload carrying a receipt was applied to a row while another row was
\* stored; the same payload can be delivered again
C11_Witness ==
    /\ last.op = "callback"
    /\ last.response.status_code = 200
    /\ FoundOne(rows, last.input)
    /\ SuccessWithReceipt(last.input)
    /\ Cardinality(rows) = 2
    /\ \E r \in select_transaction(rows, last.input.CheckoutRequestID) :
          r.transaction_code = ReceiptValue(last.input)

(***************************************************************************)
(* C12                                                                     *)
(***************************************************************************)
\* C12: when callback deliveries for the same checkout id interleave, then
\* once all of them are done the row's feedback and status are both those
\* of the payload applied last; never the feedback of one delivery with
\* the status of the other.
C12_LastAppliedWins ==
    (/\ \A p \in Deliveries : inflight[p].pc = "idle"
     /\ last.op = "callback"
     /\ last.response.status_code = 200
     /\ FoundOne(rows, last.input)) =>
        \A r \in select_transaction(rows, last.input.CheckoutRequestID) :
            r._feedback = last.input /\ r._status = ImpliedStatus(last.input)

(***************************************************************************)
(* C13                                                                     *)
(***************************************************************************)
\* C13: a Query, whatever the checkout id and whatever the provider
\* answers, leaves every row as it was and creates none.
C13_QueryLeavesStore ==
    [][Handles("query") => rows' = rows]_vars

\* the provider answered a Query for the checkout id of a stored row that
\* is still PROCESSING
C13_Witness ==
    /\ last.op = "query"
    /\ last.response.status_code = 200
    /\ \E r \in rows : r.transaction_id = last.input.transaction_id /\ r._status = PROCESSING

(***************************************************************************)
(* C14                                                                     *)
(***************************************************************************)
\* the token endpoint did not yield a token
TokenFails(tokenResp) == tokenResp.status_code # 200 \/ tokenResp.access_token = Missing

\* no two rows of the table share a process id, a non-null checkout id or
\* a non-null receipt code
UniqueKeys(table) ==
    \A r1 \in table : \A r2 \in table \ {r1} :
        /\ r1._pid # r2._pid
        /\ r1.transaction_id # None => r1.transaction_id # r2.transaction_id
        /\ r1.transaction_code # None => r1.transaction_code # r2.transaction_code

\* C14: the three keys stay unique, and an operation that would break
\* this (an Initiate whose process id or returned checkout id is already
\* stored, a callback whose receipt value another row holds) fails and
\* leaves the table unchanged.
C14_UniqueKeys ==
    /\ UniqueKeys(rows)
    /\ \A req \in TransactRequests, tokenResp \in TokenResponses, pushResp \in PushResponses :
          (/\ TransactionRequest(req)
           /\ ~TokenFails(tokenResp)
           /\ pushResp.json
           /\ \E r \in rows : \/ r._pid = req.AccountReference
                              \/ (pushResp.CheckoutRequestID # Missing
                                  /\ r.transaction_id = pushResp.CheckoutRequestID)) =>
              LET h == transact(req, tokenResp, pushResp, rows)
              IN  h.rows = rows /\ h.response.status_code = 400
    /\ \A d \in CallbackPayloads :
          (SuccessWithReceipt(d) /\ FoundOne(rows, d) /\ ReceiptHeldElsewhere(rows, d)) =>
              LET h == callback(d, rows)
              IN  h.rows = rows /\ h.response.status_code = 400

\* a callback carried the receipt value of another row and failed on the
\* constraint
C14_Witness ==
    /\ last.op = "callback"
    /\ last.response.status_code = 400
    /\ last.response.message = "IntegrityError"
    /\ Cardinality(rows) = 2

(***************************************************************************)
(* C15                                                                     *)
(***************************************************************************)
\* C15: an Initiate whose account reference is the process id of a stored
\* row is answered with an error (the conflict, when the request gets as
\* far as the insert), creates no second row and leaves the stored row
\* unchanged.
C15_DuplicateReferenceFails ==
    [][(/\ Handles("transact")
        /\ TransactionRequest(last'.input)
        /\ \E r \in rows : r._pid = last'.input.AccountReference) =>
          /\ rows' = rows
          /\ last'.response.status_code = 400
          /\ last'.response.status = "danger"
          /\ last'.response.message \in {"IntegrityError", "TypeError", "JSONDecodeError"}
          /\ (Pushed(last'.calls) /\ last'.response.message # "JSONDecodeError")
                => last'.response.message = "IntegrityError"]_vars

\* an Initiate for the reference of a row that is already ACCEPTED with a
\* receipt failed on the constraint
C15_Witness ==
    /\ last.op = "transact"
    /\ last.response.message = "IntegrityError"
    /\ \E r \in rows :
          /\ r._pid = last.input.AccountReference
          /\ r._status = ACCEPTED
          /\ r.transaction_code # None

(***************************************************************************)
(* C16                                                                     *)
(***************************************************************************)
\* C16: when the token request fails (non-200 or no access_token), Initiate
\* and Query, handled on any table the system can hold, answer with an
\* error after that single token request: no push or query request, no
\* second token request, and no row created.
C16_TokenFailureStopsRequest ==
    /\ \A req \in TransactRequests, tokenResp \in TokenResponses, pushResp \in PushResponses :
          (TransactionRequest(req) /\ TokenFails(tokenResp)) =>
              LET h == transact(req, tokenResp, pushResp, rows)
              IN  /\ h.calls = <<"token">>
                  /\ h.response.status_code = 400
                  /\ h.response.status = "danger"
                  /\ h.rows = rows
    /\ \A req \in QueryRequests, tokenResp \in TokenResponses, queryResp \in QueryResponses :
          (QueryRequest(req) /\ TokenFails(tokenResp)) =>
              LET h == query(req, tokenResp, queryResp, rows)
              IN  /\ h.calls = <<"token">>
                  /\ h.response.status_code = 400
                  /\ h.response.status = "danger"
                  /\ h.rows = rows

\* an Initiate stopped at the failed token request while a row was stored
C16_Witness ==
    /\ last.op = "transact"
    /\ last.calls = <<"token">>
    /\ last.response.status_code = 400
    /\ last.response.message = "TypeError"
    /\ rows # {}

(***************************************************************************)
(* C17                                                                     *)
(***************************************************************************)
\* C17: a row stored with a null checkout id is never matched or modified
\* by a callback, whatever its payload (a null CheckoutRequestID included):
\* it stays as it is, PROCESSING with a null receipt code.
C17_NullCheckoutRowUntouched ==
    [][\A r \in rows : r.transaction_id = None => r \in rows']_vars

(***************************************************************************)
(* C18                                                                     *)
(***************************************************************************)
\* C18: a callback that is applied changes, in the one row it found, only
\* feedback, status and receipt code; the other columns of that row and
\* every other row stay as they were, and no row appears or disappears.
C18_CallbackFrame ==
    [][(/\ Handles("callback")
        /\ last'.response.status_code = 200
        /\ FoundOne(rows, last'.input)) =>
          LET found == select_transaction(rows, last'.input.CheckoutRequestID)
          IN  /\ Cardinality(rows') = Cardinality(rows)
              /\ \A r \in rows \ found : r \in rows'
              /\ \A r \in found : \E r2 \in rows' :
                    r2 = [r EXCEPT !._feedback = r2._feedback,
                                   !._status = r2._status,
                                   !.transaction_code = r2.transaction_code]]_vars

\* a callback with a receipt was applied to one of two stored rows; the
\* other row is still PROCESSING
C18_Witness ==
    /\ last.op = "callback"
    /\ last.response.status_code = 200
    /\ SuccessWithReceipt(last.input)
    /\ Cardinality(rows) = 2
    /\ \E r \in rows, o \in rows :
          /\ r.transaction_id = last.input.CheckoutRequestID
          /\ r._status = ACCEPTED
          /\ r.transaction_code = ReceiptValue(last.input)
          /\ o._pid # r._pid
          /\ o._status = PROCESSING

(***************************************************************************)
(* C19                                                                     *)
(***************************************************************************)
\* C19: no operation removes a process id from the table, and an Initiate,
\* whether it succeeds or fails, leaves every row stored before it as it
\* was.
C19_RowsOnlyGrow ==
    [][/\ \A r \in rows : \E r2 \in rows' : r2._pid = r._pid
       /\ Handles("transact") => rows \subseteq rows']_vars

\* an Initiate added a second row beside a row that a callback had already
\* made ACCEPTED with a receipt
C19_Witness ==
    /\ last.op = "transact"
    /\ last.response.status_code = 200
    /\ Cardinality(rows) = 2
    /\ \E r \in rows, o \in rows :
          /\ r._pid = last.input.AccountReference
          /\ r._status = PROCESSING
          /\ o._pid # r._pid
          /\ o._status = ACCEPTED
          /\ o.transaction_code # None

(***************************************************************************)
(* C20                                                                     *)
(***************************************************************************)
\* C20: a row is created with the provider's push answer as feedback; each
\* callback that finds the row and commits makes its payload the feedback,
\* also when the row is already ACCEPTED or REJECTED; every other step
\* leaves the feedback alone. So after any sequence of operations the
\* feedback is the payload of the latest applied callback, or the push
\* answer when there was none.
C20_FeedbackIsLatestPayload ==
    [][\A r2 \in rows' :
          IF \A r \in rows : r._pid # r2._pid
          THEN /\ Handles("transact")
               /\ r2._feedback = last'.response.data
          ELSE LET r == CHOOSE x \in rows : x._pid = r2._pid
               IN  IF /\ Handles("callback")
                      /\ last'.response.status_code = 200
                      /\ FoundOne(rows, last'.input)
                      /\ r \in select_transaction(rows, last'.input.CheckoutRequestID)
                   THEN r2._feedback = last'.input
                   ELSE r2._feedback = r._feedback]_vars

\* a failure payload was delivered onto a row that an earlier callback had
\* made ACCEPTED with a receipt: the row holds the later payload
C20_Witness ==
    /\ last.op = "callback"
    /\ last.response.status_code = 200
    /\ Failure(last.input)
    /\ \E r \in rows :
          /\ r.transaction_id = last.input.CheckoutRequestID
          /\ r.transaction_code # None
          /\ r._feedback = last.input

(***************************************************************************)
(* C21                                                                     *)
(***************************************************************************)
\* a result code 0 callback whose metadata is absent, or whose item list is
\* empty or has no receipt item carrying a Value
SuccessWithoutReceipt(d) ==
    /\ HasCheckoutId(d)
    /\ d.hasResultCode
    /\ d.ResultCode = 0
    /\ d.CallbackMetadata.kind \in {"absent", "dict"}
    /\ WellFormedItems(d)
    /\ ReceiptPositions(d) = {}

\* C21: a result code 0 callback without metadata, with an empty item list
\* or with no receipt item carrying a Value is applied to the row it finds:
\* the row becomes ACCEPTED and its receipt code is not set (it stays what
\* it was, null on a row that had none). When a callback with several
\* receipt items is applied, the receipt code is the Value of the first.
C21_AcceptedWithoutReceipt ==
    [][(Handles("callback") /\ FoundOne(rows, last'.input)) =>
          LET d == last'.input
              r == CHOOSE x \in select_transaction(rows, d.CheckoutRequestID) : TRUE
          IN  /\ SuccessWithoutReceipt(d) =>
                    /\ last'.response.status_code = 200
                    /\ \E r2 \in rows' : /\ r2._pid = r._pid
                                         /\ r2._status = ACCEPTED
                                         /\ r2.transaction_code = r.transaction_code
              /\ (SuccessWithReceipt(d) /\ last'.response.status_code = 200) =>
                    \E r2 \in rows' : /\ r2._pid = r._pid
                                      /\ r2._status = ACCEPTED
                                      /\ r2.transaction_code = ReceiptValue(d)]_vars

\* a result code 0 callback whose two items carry no receipt Value was
\* applied: the row is ACCEPTED and has no receipt code
C21_Witness ==
    /\ last.op = "callback"
    /\ last.response.status_code = 200
    /\ SuccessWithoutReceipt(last.input)
    /\ Len(last.input.CallbackMetadata.Item) = 2
    /\ \E r \in select_transaction(rows, last.input.CheckoutRequestID) :
          r._status = ACCEPTED /\ r.transaction_code = None

(***************************************************************************)
(* C22                                                                     *)
(***************************************************************************)
\* C22: in every push and query request sent to the provider, Password is
\* the encoding of short code, pass key and the very Timestamp of the same
\* request, also when the clock advances while the request is built.
C22_TimestampMatchesPassword ==
    payload.pc = "sent" =>
        payload.Password = b64encode(ShortCodeBytes \o PassKeyBytes \o payload.Timestamp)

====
